---------------------------- MODULE Spec2Model ----------------------------
(***************************************************************************)
(* Model of the Telugu catalogue browser (src/app.py): the one-time        *)
(* loader, the filter pipeline, sorting, pagination and the details        *)
(* selection.  Streamlit runs the whole script once per user interaction,  *)
(* so every interaction is one action that computes a complete script run. *)
(*                                                                         *)
(* Text is modelled by TLA+ strings, read character by character.  A cell  *)
(* of the table is a record: NA for pandas' NaN/None, Txt(s) for a string. *)
(* Every column read from the file has pandas' object dtype (a text        *)
(* column): see TextColumn.                                                *)
(***************************************************************************)
EXTENDS Integers, Sequences, FiniteSets, TLC

VARIABLES
    file,            \* what pd.read_csv finds on disk
    pc,              \* "start" | "ready" | "halted" | "crashed"
    data,            \* the cached DataFrame: a sequence of rows, index label = position - 1
    load_error,      \* st.error was shown by the loader
    tie_rev,         \* the order argsort(kind='quicksort') leaves equal keys in
    search_query,    \* st.text_input
    sel_cats,        \* st.multiselect Category
    sel_langs,       \* st.multiselect Language
    sel_pubs,        \* st.multiselect Publisher
    sel_years,       \* st.slider value, or NoRange when no slider is drawn
    sort_opt,        \* st.selectbox
    page,            \* st.session_state.page; NoPage while the key is not set
    sel_book_idx,    \* st.session_state['sel_book_idx']; NoBook while not set
    sel_book_data,   \* st.session_state['sel_book_data']
    show_d,          \* st.session_state['show_d']
    run_error,       \* the last script run ended in an uncaught exception
    filtered_df,     \* index labels of filtered_df after sorting, in order
    view_df,         \* index labels of the rendered cards, in order
    dialog,          \* the record the details dialog shows, or NoDialog
    shown,           \* history: the views rendered since page 1 by pressing Next only
    chosen           \* history: the index label of the last Details click

vars == <<file, pc, data, load_error, tie_rev, search_query, sel_cats, sel_langs,
          sel_pubs, sel_years, sort_opt, page, sel_book_idx, sel_book_data, show_d,
          run_error, filtered_df, view_df, dialog, shown, chosen>>

-----------------------------------------------------------------------------
(* Cells and text *)

NA == [isna |-> TRUE, text |-> ""]
Txt(s) == [isna |-> FALSE, text |-> s]

NaN == [isna |-> TRUE, num |-> 0]
Num(n) == [isna |-> FALSE, num |-> n]

Ch(s, i) == SubSeq(s, i, i)

UpperAlpha == "ABCDEFGHIJKLMNOPQRSTUVWXYZ"
LowerAlpha == "abcdefghijklmnopqrstuvwxyz"
Digits == "0123456789"
\* The characters of the model's texts in code-point order.
CodePoints == " (." \o Digits \o UpperAlpha \o LowerAlpha

Chars(s) == {Ch(s, i) : i \in 1..Len(s)}
IndexIn(s) == [c \in Chars(s) |-> CHOOSE i \in 1..Len(s) : Ch(s, i) = c]

OrdTable == IndexIn(CodePoints)
Ord(c) == OrdTable[c]

\* str.lower() on one character
LowerTable == [c \in Chars(UpperAlpha) |-> Ch(LowerAlpha, IndexIn(UpperAlpha)[c])]
LowerChar(c) == IF c \in DOMAIN LowerTable THEN LowerTable[c] ELSE c

RECURSIVE Lower(_)
Lower(s) == IF s = "" THEN "" ELSE LowerChar(Ch(s, 1)) \o Lower(SubSeq(s, 2, Len(s)))

RECURSIVE LStrip(_)
LStrip(s) == IF s # "" /\ Ch(s, 1) = " " THEN LStrip(SubSeq(s, 2, Len(s))) ELSE s

RECURSIVE RStrip(_)
RStrip(s) == IF s # "" /\ Ch(s, Len(s)) = " " THEN RStrip(SubSeq(s, 1, Len(s) - 1)) ELSE s

Strip(s) == RStrip(LStrip(s))

\* Literal substring test.
Contains(s, q) == \E i \in 1..(Len(s) - Len(q) + 1) : SubSeq(s, i, i + Len(q) - 1) = q

DigitTable == IndexIn(Digits)
IsDigit(c) == c \in DOMAIN DigitTable
DigitVal(c) == DigitTable[c] - 1
IsDigits(s) == s # "" /\ \A i \in 1..Len(s) : IsDigit(Ch(s, i))

RECURSIVE ParseInt(_)
ParseInt(s) ==
    IF s = "" THEN 0 ELSE 10 * ParseInt(SubSeq(s, 1, Len(s) - 1)) + DigitVal(Ch(s, Len(s)))

\* Python's str ordering: by code point, a proper prefix first.
RECURSIVE StrLess(_, _)
StrLess(a, b) ==
    IF b = "" THEN FALSE
    ELSE IF a = "" THEN TRUE
    ELSE IF Ch(a, 1) = Ch(b, 1) THEN StrLess(SubSeq(a, 2, Len(a)), SubSeq(b, 2, Len(b)))
    ELSE Ord(Ch(a, 1)) < Ord(Ch(b, 1))

-----------------------------------------------------------------------------
(* 2. DATA LOADING & OMNI-SEARCH PREP *)

SentinelList == {"unknown", "nan", "null", "", "none"}

\* clean_value on a cell of an object column
clean_value(val) ==
    IF val.isna THEN NA
    ELSE LET s == Strip(val.text)
         IN IF Lower(s) \in SentinelList THEN NA ELSE Txt(s)

\* pd.to_numeric(..., errors='coerce') on a cleaned cell: texts of digits are the
\* numeric texts of the model (TextValues holds no sign, point or exponent).
to_numeric(val) ==
    IF val.isna THEN NaN
    ELSE IF IsDigits(val.text) THEN Num(ParseInt(val.text)) ELSE NaN

\* Series.fillna('') on a cell
fillna_empty(val) == IF val.isna THEN "" ELSE val.text

\* Map Publication Date to Year if Year missing (lines 114-118); the result
\* holds a Year column iff the file has a Year or a Publication Date column.
NormalizeYear(cols, row) ==
    IF "Publication Date" \in cols /\ "Year" \notin cols
    THEN [c \in cols \cup {"Year"} |-> IF c = "Year" THEN row["Publication Date"] ELSE row[c]]
    ELSE IF "Publication Date" \in cols /\ "Year" \in cols
    THEN [row EXCEPT !["Year"] = IF row["Year"].isna THEN row["Publication Date"] ELSE @]
    ELSE row

CleanRow(row) == [c \in DOMAIN row |-> clean_value(row[c])]

Search_Blob(row) ==
    Lower(fillna_empty(row["Book Title"]) \o " " \o
          fillna_empty(row["Author(s)"]) \o " " \o
          fillna_empty(row["Year"]) \o " " \o
          fillna_empty(row["Category"]) \o " " \o
          fillna_empty(row["Language"]))

PrepRow(cols, row) ==
    LET r == CleanRow(NormalizeYear(cols, row))
    IN [c \in DOMAIN r \cup {"Year_Numeric", "Search_Blob"} |->
           IF c = "Year_Numeric" THEN to_numeric(r["Year"])
           ELSE IF c = "Search_Blob" THEN Txt(Search_Blob(r))
           ELSE r[c]]

\* The columns the loader indexes by name: a missing one raises KeyError,
\* which nothing catches (line 133 for Year, lines 139-143 for the rest).
LoaderKeys(cols) ==
    /\ ("Year" \in cols \/ "Publication Date" \in cols)
    /\ {"Book Title", "Author(s)", "Category", "Language"} \subseteq cols

\* load_and_prep_data: the frame returned, whether st.error was shown, and
\* whether the call raised instead of returning.
load_and_prep_data(f) ==
    IF ~f.readable
    THEN [raised |-> FALSE, error |-> TRUE, frame |-> <<>>]
    ELSE IF ~LoaderKeys(f.cols)
    THEN [raised |-> TRUE, error |-> FALSE, frame |-> <<>>]
    ELSE [raised |-> FALSE, error |-> FALSE,
          frame |-> [i \in 1..Len(f.rows) |-> PrepRow(f.cols, f.rows[i])]]


\* if data.empty: st.stop()  (DataFrame.empty: no rows)
IsEmptyFrame(d) == Len(d) = 0

-----------------------------------------------------------------------------
(* 4. FACETED SEARCH BAR *)

Row(d, k) == d[k + 1]
AllLabels(d) == [i \in 1..Len(d) |-> i - 1]

FacetOptions(d, col) == {d[i][col].text : i \in {j \in 1..Len(d) : ~d[j][col].isna}}

valid_years(d) == {d[i]["Year_Numeric"].num : i \in {j \in 1..Len(d) : ~d[j]["Year_Numeric"].isna}}
min_y(d) == CHOOSE y \in valid_years(d) : \A z \in valid_years(d) : y <= z
max_y(d) == CHOOSE y \in valid_years(d) : \A z \in valid_years(d) : y >= z

NoRange == [none |-> TRUE, lo |-> 0, hi |-> 0]
Range(lo, hi) == [none |-> FALSE, lo |-> lo, hi |-> hi]

\* The values the slider can hold: lo <= hi within [min_y, max_y].
SliderRanges(d) ==
    IF valid_years(d) = {} THEN {}
    ELSE {yr \in (min_y(d)..max_y(d)) \X (min_y(d)..max_y(d)) : yr[1] <= yr[2]}

\* The slider's default: the full range, or no slider without a known year.
DefaultYears(d) == IF valid_years(d) = {} THEN NoRange ELSE Range(min_y(d), max_y(d))

\* re.compile on the pattern: among the characters of the model's queries only
\* "(" opens a construct, and nothing closes it ("missing ), unterminated subpattern").
RegexCompiles(p) == ~Contains(p, "(")

\* re.search(p, s, re.IGNORECASE) for a pattern that compiles: "." matches any
\* character (no text holds a newline), every other character itself.
RegexSearch(p, s) ==
    LET lp == Lower(p)
        ls == Lower(s)
    IN \E i \in 1..(Len(s) - Len(p) + 1) :
           \A j \in 1..Len(p) : Ch(p, j) = "." \/ Ch(lp, j) = Ch(ls, i + j - 1)

query_str(q) == Strip(Lower(q))

\* if search_query: ... str.contains(query_str, case=False)   (regex=True)
SearchRaises(q) == q # "" /\ ~RegexCompiles(query_str(q))

SearchFilter(d, s, q) ==
    IF q = "" THEN s
    ELSE SelectSeq(s, LAMBDA k : RegexSearch(query_str(q), Row(d, k)["Search_Blob"].text))

\* if sel: filtered_df[filtered_df[col].isin(sel)]
FacetFilter(d, s, col, sel) ==
    IF sel = {} THEN s
    ELSE SelectSeq(s, LAMBDA k : ~Row(d, k)[col].isna /\ Row(d, k)[col].text \in sel)

\* A faulty is_full_range: the range counts as full when either end sits at its bound.
is_full_range_either(d, yrs) == yrs.lo = min_y(d) \/ yrs.hi = max_y(d)

is_full_range(d, yrs) == yrs.lo = min_y(d) /\ yrs.hi = max_y(d)

YearFilter(d, s, yrs) ==
    IF ~yrs.none /\ valid_years(d) # {}
    THEN IF ~is_full_range(d, yrs)
         THEN SelectSeq(s, LAMBDA k : /\ ~Row(d, k)["Year_Numeric"].isna
                                       /\ Row(d, k)["Year_Numeric"].num >= yrs.lo
                                       /\ Row(d, k)["Year_Numeric"].num <= yrs.hi)
         ELSE s
    ELSE s

FilterPipeline(d, q, cs, ls, ps, yrs) ==
    YearFilter(d,
        FacetFilter(d,
            FacetFilter(d,
                FacetFilter(d, SearchFilter(d, AllLabels(d), q), "Category", cs),
                "Language", ls),
            "Publisher", ps),
        yrs)

-----------------------------------------------------------------------------
(* 5. RESULTS CONTROL & SORTING *)

SortOptions == {"Relevance", "Year (Newest)", "Year (Oldest)", "Title (A-Z)"}

Reverse(s) == [i \in 1..Len(s) |-> s[Len(s) + 1 - i]]

MinOf(S) == CHOOSE m \in S : \A x \in S : m <= x

\* numpy argsort(kind='quicksort') of integer keys: positions in ascending key
\* order.  quicksort promises no order among equal keys; rev is the order this
\* build leaves them in (by position, or by position backwards).
RECURSIVE ArgSortKeys(_, _, _)
ArgSortKeys(keys, K, rev) ==
    IF K = {} THEN <<>>
    ELSE LET m == MinOf(K)
             grp == SelectSeq([i \in 1..Len(keys) |-> i], LAMBDA p : keys[p] = m)
         IN (IF rev THEN Reverse(grp) ELSE grp) \o ArgSortKeys(keys, K \ {m}, rev)

argsort(keys, rev) == ArgSortKeys(keys, {keys[i] : i \in 1..Len(keys)}, rev)

\* A faulty nargsort: the descending order is the whole ascending result
\* reversed, NaN positions included.
nargsort_reverse_all(items, ascending, rev) ==
    LET idx == [i \in 1..Len(items) |-> i]
        non_nan_idx == SelectSeq(idx, LAMBDA p : ~items[p].isna)
        nan_idx == SelectSeq(idx, LAMBDA p : items[p].isna)
        srt == argsort([i \in 1..Len(non_nan_idx) |-> items[non_nan_idx[i]].num], rev)
        indexer == [i \in 1..Len(srt) |-> non_nan_idx[srt[i]]] \o nan_idx
    IN IF ascending THEN indexer ELSE Reverse(indexer)

\* pandas nargsort(items, kind='quicksort', ascending, na_position='last'):
\* the positions of items in sorted order, NaN positions last in their own order.
nargsort(items, ascending, rev) ==
    LET idx == [i \in 1..Len(items) |-> i]
        non_nan_idx == SelectSeq(idx, LAMBDA p : ~items[p].isna)
        nan_idx == SelectSeq(idx, LAMBDA p : items[p].isna)
        nn == IF ascending THEN non_nan_idx ELSE Reverse(non_nan_idx)
        srt == argsort([i \in 1..Len(nn) |-> items[nn[i]].num], rev)
        indexer == [i \in 1..Len(srt) |-> nn[srt[i]]]
    IN (IF ascending THEN indexer ELSE Reverse(indexer)) \o nan_idx

\* The sort key of a title among the titles being sorted: str comparison
\* orders the titles as the count of smaller titles does.
TitlesOf(d, s) ==
    {Row(d, s[i])["Book Title"].text : i \in {j \in 1..Len(s) : ~Row(d, s[j])["Book Title"].isna}}

TitleRank(titles) == [t \in titles |-> Cardinality({u \in titles : StrLess(u, t)})]

TitleKey(rank, val) == IF val.isna THEN NaN ELSE Num(rank[val.text])

sort_values(s, items, ascending, rev) ==
    LET perm == nargsort(items, ascending, rev)
    IN [i \in 1..Len(s) |-> s[perm[i]]]

SortStage(d, s, srt, rev) ==
    IF srt = "Year (Newest)"
    THEN sort_values(s, [i \in 1..Len(s) |-> Row(d, s[i])["Year_Numeric"]], FALSE, rev)
    ELSE IF srt = "Year (Oldest)"
    THEN sort_values(s, [i \in 1..Len(s) |-> Row(d, s[i])["Year_Numeric"]], TRUE, rev)
    ELSE IF srt = "Title (A-Z)"
    THEN LET rank == TitleRank(TitlesOf(d, s))
         IN sort_values(s, [i \in 1..Len(s) |-> TitleKey(rank, Row(d, s[i])["Book Title"])],
                        TRUE, rev)
    ELSE s

-----------------------------------------------------------------------------
(* 6. PAGINATION & RENDERING *)

ITEMS_PER_PAGE == 20

NoPage == 0

\* math.ceil(len(filtered_df) / ITEMS_PER_PAGE)
total_pages(n) == (n + ITEMS_PER_PAGE - 1) \div ITEMS_PER_PAGE

\* filtered_df.iloc[start:end] with 0-based start, end exclusive
iloc(s, start, end) ==
    LET lo == IF start < Len(s) THEN start ELSE Len(s)
        hi == IF end < Len(s) THEN end ELSE Len(s)
    IN SubSeq(s, lo + 1, hi)

\* if 'page' not in st.session_state: st.session_state.page = 1
PageState(pg) == IF pg = NoPage THEN 1 ELSE pg

\* The Previous and Next buttons: the page after the click (st.rerun then
\* runs the script again with the new page and no button pressed).
PageAfterClick(pg, e, tp) ==
    IF e.type = "prev" /\ pg > 1 THEN pg - 1
    ELSE IF e.type = "next" /\ pg < tp THEN pg + 1
    ELSE pg

\* A faulty PageSlice: the slice starts one record late (a 1-based start).
PageSlice_one_based(s, pg) ==
    LET start == (pg - 1) * ITEMS_PER_PAGE + 1
        end == start + ITEMS_PER_PAGE
    IN iloc(s, start, end)

PageSlice(s, pg) ==
    LET start == (pg - 1) * ITEMS_PER_PAGE
        end == start + ITEMS_PER_PAGE
    IN iloc(s, start, end)

\* One run of the script below the loader, for the widget values given, the
\* session's page pg and the interaction e that triggered it.
ScriptRun(d, rev, q, cs, ls, ps, yrs, srt, pg, e) ==
    IF SearchRaises(q)
    THEN [raised |-> TRUE, filtered |-> <<>>, view |-> <<>>, page |-> pg]
    ELSE LET f == FilterPipeline(d, q, cs, ls, ps, yrs)
         IN IF f = <<>>
            THEN [raised |-> FALSE, filtered |-> <<>>, view |-> <<>>, page |-> pg]
            ELSE LET sorted == SortStage(d, f, srt, rev)
                 IN IF Len(sorted) > ITEMS_PER_PAGE
                    THEN LET p == PageAfterClick(PageState(pg), e, total_pages(Len(sorted)))
                         IN [raised |-> FALSE, filtered |-> sorted,
                             view |-> PageSlice(sorted, p), page |-> p]
                    ELSE [raised |-> FALSE, filtered |-> sorted, view |-> sorted, page |-> pg]


NoBook == -1
NoData == [c \in {} |-> NA]
NoDialog == [c \in {} |-> NA]

SeqRange(s) == {s[i] : i \in 1..Len(s)}

\* A faulty SelectionAfter: a selection whose card is no longer rendered is dropped.
SelectionAfter_visible_only(sel, e, view, d) ==
    IF e.type = "details" /\ e.idx \in SeqRange(view)
    THEN [idx |-> e.idx, data |-> Row(d, e.idx), show |-> TRUE]
    ELSE IF sel.idx \in SeqRange(view) THEN sel
    ELSE [idx |-> NoBook, data |-> NoData, show |-> FALSE]

\* The Details button of card idx (lines 333-336): the session's selection after
\* a run that rendered the cards in view.
SelectionAfter(sel, e, view, d) ==
    IF e.type = "details" /\ e.idx \in SeqRange(view)
    THEN [idx |-> e.idx, data |-> Row(d, e.idx), show |-> TRUE]
    ELSE sel

-----------------------------------------------------------------------------
(* 7. DETAILS DIALOG *)

\* if st.session_state.get('show_d'): book = st.session_state.get('sel_book_data', {})
DialogBook(show, book) == IF show THEN book ELSE NoDialog

-----------------------------------------------------------------------------
(* The script as a state machine *)

Ev(t) == [type |-> t, idx |-> NoBook]

\* History of a walk through the pages: it starts with a view rendered on page 1
\* and grows by the view of each page that Next turns to.
ShownAfter(e, r, pg) ==
    IF r.raised \/ r.filtered = <<>> THEN <<>>
    ELSE IF e.type = "next" /\ shown # <<>> /\ r.page # pg THEN Append(shown, r.view)
    ELSE IF e.type \in {"next", "details"} THEN shown
    ELSE IF PageState(r.page) = 1 THEN <<r.view>>
    ELSE <<>>

\* One run of the script in a loaded session: the widgets hold q, cs, ls, ps,
\* yrs, srt and e is the interaction that triggered the run.
Rerun(e, q, cs, ls, ps, yrs, srt) ==
    \E r \in {ScriptRun(data, tie_rev, q, cs, ls, ps, yrs, srt, page, e)} :
    \E sel \in {IF r.raised
                THEN [idx |-> sel_book_idx, data |-> sel_book_data, show |-> show_d]
                ELSE SelectionAfter([idx |-> sel_book_idx, data |-> sel_book_data,
                                     show |-> show_d], e, r.view, data)} :
       /\ search_query' = q
       /\ sel_cats' = cs
       /\ sel_langs' = ls
       /\ sel_pubs' = ps
       /\ sel_years' = yrs
       /\ sort_opt' = srt
       /\ run_error' = r.raised
       /\ filtered_df' = r.filtered
       /\ view_df' = r.view
       /\ page' = r.page
       /\ sel_book_idx' = sel.idx
       /\ sel_book_data' = sel.data
       /\ show_d' = sel.show
       /\ dialog' = IF r.raised THEN NoDialog ELSE DialogBook(sel.show, sel.data)
       /\ shown' = ShownAfter(e, r, page)
       /\ chosen' = IF e.type = "details" THEN e.idx ELSE chosen

\* The first run of the script: load_and_prep_data, the data.empty guard, and
\* the rest of the script with every widget at its default.
Load ==
    /\ pc = "start"
    /\ \E res \in {load_and_prep_data(file)} :
          IF res.raised
          THEN /\ pc' = "crashed"
               /\ UNCHANGED <<data, load_error, search_query, sel_cats, sel_langs, sel_pubs,
                              sel_years, sort_opt, page, sel_book_idx, sel_book_data, show_d,
                              run_error, filtered_df, view_df, dialog, shown, chosen>>
          ELSE IF IsEmptyFrame(res.frame)
          THEN /\ pc' = "halted"
               /\ data' = res.frame
               /\ load_error' = res.error
               /\ UNCHANGED <<search_query, sel_cats, sel_langs, sel_pubs,
                              sel_years, sort_opt, page, sel_book_idx, sel_book_data, show_d,
                              run_error, filtered_df, view_df, dialog, shown, chosen>>
          ELSE \E r \in {ScriptRun(res.frame, tie_rev, "", {}, {}, {},
                                   DefaultYears(res.frame), "Relevance", NoPage, Ev("init"))} :
                  /\ pc' = "ready"
                  /\ data' = res.frame
                  /\ load_error' = res.error
                  /\ sel_years' = DefaultYears(res.frame)
                  /\ filtered_df' = r.filtered
                  /\ view_df' = r.view
                  /\ page' = r.page
                  /\ shown' = <<r.view>>
                  /\ UNCHANGED <<search_query, sel_cats, sel_langs, sel_pubs, sort_opt,
                                 sel_book_idx, sel_book_data, show_d, run_error, dialog,
                                 chosen>>
    /\ UNCHANGED <<file, tie_rev>>

SetQuery(q) ==
    /\ pc = "ready"
    /\ q # search_query
    /\ Rerun(Ev("query"), q, sel_cats, sel_langs, sel_pubs, sel_years, sort_opt)
    /\ UNCHANGED <<file, pc, data, load_error, tie_rev>>

SetCats(cs) ==
    /\ pc = "ready"
    /\ cs \subseteq FacetOptions(data, "Category")
    /\ cs # sel_cats
    /\ Rerun(Ev("cats"), search_query, cs, sel_langs, sel_pubs, sel_years, sort_opt)
    /\ UNCHANGED <<file, pc, data, load_error, tie_rev>>

SetLangs(ls) ==
    /\ pc = "ready"
    /\ ls \subseteq FacetOptions(data, "Language")
    /\ ls # sel_langs
    /\ Rerun(Ev("langs"), search_query, sel_cats, ls, sel_pubs, sel_years, sort_opt)
    /\ UNCHANGED <<file, pc, data, load_error, tie_rev>>

SetPubs(ps) ==
    /\ pc = "ready"
    /\ ps \subseteq FacetOptions(data, "Publisher")
    /\ ps # sel_pubs
    /\ Rerun(Ev("pubs"), search_query, sel_cats, sel_langs, ps, sel_years, sort_opt)
    /\ UNCHANGED <<file, pc, data, load_error, tie_rev>>

\* The slider exists only with a known year; its ends stay within [min_y, max_y].
SetYears(lo, hi) ==
    /\ pc = "ready"
    /\ valid_years(data) # {}
    /\ min_y(data) <= lo /\ lo <= hi /\ hi <= max_y(data)
    /\ Range(lo, hi) # sel_years
    /\ Rerun(Ev("years"), search_query, sel_cats, sel_langs, sel_pubs, Range(lo, hi), sort_opt)
    /\ UNCHANGED <<file, pc, data, load_error, tie_rev>>

\* The Sort By box is drawn only with a non-empty result.
SetSort(srt) ==
    /\ pc = "ready"
    /\ ~run_error /\ filtered_df # <<>>
    /\ srt # sort_opt
    /\ Rerun(Ev("sort"), search_query, sel_cats, sel_langs, sel_pubs, sel_years, srt)
    /\ UNCHANGED <<file, pc, data, load_error, tie_rev>>

\* Previous and Next are drawn only when more than one page of results exists.
ClickPrevious ==
    /\ pc = "ready"
    /\ ~run_error /\ Len(filtered_df) > ITEMS_PER_PAGE
    /\ Rerun(Ev("prev"), search_query, sel_cats, sel_langs, sel_pubs, sel_years, sort_opt)
    /\ UNCHANGED <<file, pc, data, load_error, tie_rev>>

ClickNext ==
    /\ pc = "ready"
    /\ ~run_error /\ Len(filtered_df) > ITEMS_PER_PAGE
    /\ Rerun(Ev("next"), search_query, sel_cats, sel_langs, sel_pubs, sel_years, sort_opt)
    /\ UNCHANGED <<file, pc, data, load_error, tie_rev>>

\* The Details button of the card at position pos of the rendered view.
ClickDetails(pos) ==
    /\ pc = "ready"
    /\ ~run_error
    /\ pos \in 1..Len(view_df)
    /\ Rerun([type |-> "details", idx |-> view_df[pos]],
             search_query, sel_cats, sel_langs, sel_pubs, sel_years, sort_opt)
    /\ UNCHANGED <<file, pc, data, load_error, tie_rev>>

InitSession(files, revs) ==
    /\ file \in files
    /\ tie_rev \in revs
    /\ pc = "start"
    /\ data = <<>>
    /\ load_error = FALSE
    /\ search_query = ""
    /\ sel_cats = {}
    /\ sel_langs = {}
    /\ sel_pubs = {}
    /\ sel_years = NoRange
    /\ sort_opt = "Relevance"
    /\ page = NoPage
    /\ sel_book_idx = NoBook
    /\ sel_book_data = NoData
    /\ show_d = FALSE
    /\ run_error = FALSE
    /\ filtered_df = <<>>
    /\ view_df = <<>>
    /\ dialog = NoDialog
    /\ shown = <<>>
    /\ chosen = NoBook


-----------------------------------------------------------------------------
(* Bounded inputs *)

AllColumns == {"Book Title", "Author(s)", "Category", "Language", "Publisher",
               "Year", "Publication Date"}

Unreadable == [readable |-> FALSE, cols |-> {}, rows |-> <<>>]

RECURSIVE SeqsUpTo(_, _)
SeqsUpTo(S, n) ==
    IF n = 0 THEN {<<>>}
    ELSE LET shorter == SeqsUpTo(S, n - 1)
         IN shorter \cup {Append(q, x) : q \in {t \in shorter : Len(t) = n - 1}, x \in S}

\* A column pandas reads as text: not one made of numbers and gaps only
\* (read_csv gives that one a float dtype, which clean_value skips).
IsNumericText(c) == ~c.isna /\ IsDigits(Strip(c.text))
TextColumn(rows, col) ==
    \/ \A i \in 1..Len(rows) : ~rows[i][col].isna
    \/ \A i \in 1..Len(rows) : rows[i][col].isna
    \/ \E i \in 1..Len(rows) : ~rows[i][col].isna /\ ~IsNumericText(rows[i][col])

TextFile(f) ==
    \A col \in f.cols \cap {"Year", "Publication Date"} : TextColumn(f.rows, col)

\* Loader inputs: files with any subset of the optional columns below, and
\* rows whose Year and Publication Date cells range over gaps, years, padded
\* text and sentinel spellings.
MaxLoadRows == 2
LoadOptionalColumns == {"Book Title", "Category", "Year", "Publication Date"}
LoadYearCells == {NA, Txt("1950"), Txt("Unknown"), Txt(" 1951 ")}
LoadDateCells == {NA, Txt("1960"), Txt(" none ")}

LoadRow(cols, y, p) ==
    [c \in cols |->
        IF c = "Year" THEN y
        ELSE IF c = "Publication Date" THEN p
        ELSE IF c = "Book Title" THEN Txt("Ramayana")
        ELSE IF c = "Author(s)" THEN Txt("Valmiki")
        ELSE IF c = "Category" THEN Txt("Epic")
        ELSE IF c = "Language" THEN Txt("Telugu")
        ELSE Txt("Emesco")]

LoadFiles ==
    {Unreadable} \cup
    {f \in UNION {
        LET cols == (AllColumns \ LoadOptionalColumns) \cup opt
        IN {[readable |-> TRUE, cols |-> cols, rows |-> rows] :
              rows \in SeqsUpTo({LoadRow(cols, y, p) : y \in LoadYearCells, p \in LoadDateCells},
                                MaxLoadRows)} :
        opt \in SUBSET LoadOptionalColumns} : TextFile(f)}

\* Filter inputs: catalogues of a few books that differ in every filtered field.
MaxFilterRows == 3

Book(title, year, cat, lang, pub) ==
    [c \in AllColumns \ {"Publication Date"} |->
        IF c = "Book Title" THEN title
        ELSE IF c = "Author(s)" THEN Txt("Valmiki")
        ELSE IF c = "Year" THEN year
        ELSE IF c = "Category" THEN cat
        ELSE IF c = "Language" THEN lang
        ELSE pub]

FilterBooks ==
    {Book(Txt("Ab"), Txt("1950"), Txt("History"), Txt("Telugu"), Txt("Emesco")),
     Book(Txt("a.b"), Txt("Unknown"), Txt("Poetry"), Txt("Telugu"), Txt("unknown")),
     Book(Txt("B"), Txt("1951"), Txt("nan "), Txt("Unknown"), Txt("Vavilla"))}

\* Sort inputs: two books of one year, one of another year, one of no known year.
SortBooks ==
    {Book(Txt("Ab"), Txt("1950"), Txt("History"), Txt("Telugu"), Txt("Emesco")),
     Book(Txt("Ab"), Txt("1950"), Txt("Poetry"), Txt("Telugu"), Txt("Emesco")),
     Book(Txt("B"), Txt("1951"), Txt("History"), Txt("Telugu"), Txt("Emesco")),
     Book(Txt("a.b"), Txt("Unknown"), Txt("Poetry"), Txt("Telugu"), Txt("Emesco"))}

Catalogues(books, n) ==
    {[readable |-> TRUE, cols |-> AllColumns \ {"Publication Date"}, rows |-> rows] :
        rows \in SeqsUpTo(books, n) \ {<<>>}}

FilterQueries == {"", "a", " AB ", ".", "(", "1950", "  "}

\* Session input: one catalogue of NumBooks books, enough for three pages.
NumBooks == 41
HistoryBooks == 21

SessionBook(i) ==
    Book(IF i % 3 = 0 THEN Txt("Ramayana") ELSE IF i % 3 = 1 THEN Txt("Bharatam") ELSE Txt("andhra"),
         IF i % 4 = 0 THEN Txt("1950") ELSE IF i % 4 = 2 THEN Txt("Unknown") ELSE Txt("1951"),
         IF i <= HistoryBooks THEN Txt("History") ELSE Txt("Poetry"),
         Txt("Telugu"), Txt("Emesco"))

SessionFile ==
    [readable |-> TRUE, cols |-> AllColumns \ {"Publication Date"},
     rows |-> [i \in 1..NumBooks |-> SessionBook(i)]]

SessionQueries == {"", "("}
ClickPositions == {1}

-----------------------------------------------------------------------------
(* Specifications *)

\* A browsing session over the large catalogue.
Init == InitSession({SessionFile}, BOOLEAN)

Next ==
    \/ Load
    \/ \E q \in SessionQueries : SetQuery(q)
    \/ \E cs \in SUBSET FacetOptions(data, "Category") : SetCats(cs)
    \/ \E yr \in SliderRanges(data) : SetYears(yr[1], yr[2])
    \/ \E srt \in SortOptions : SetSort(srt)
    \/ ClickPrevious
    \/ ClickNext
    \/ \E pos \in ClickPositions : ClickDetails(pos)

Spec == Init /\ [][Next]_vars

\* The loader applied to every bounded file.
InitLoad == InitSession(LoadFiles, {FALSE})

NextLoad == Load

SpecLoad == InitLoad /\ [][NextLoad]_vars

\* The filter pipeline applied to every bounded catalogue and filter state.
InitFilter == InitSession(Catalogues(FilterBooks, MaxFilterRows), {FALSE})

NextFilter ==
    \/ Load
    \/ \E q \in FilterQueries : SetQuery(q)
    \/ \E cs \in SUBSET FacetOptions(data, "Category") : SetCats(cs)
    \/ \E ls \in SUBSET FacetOptions(data, "Language") : SetLangs(ls)
    \/ \E ps \in SUBSET FacetOptions(data, "Publisher") : SetPubs(ps)
    \/ \E yr \in SliderRanges(data) : SetYears(yr[1], yr[2])

SpecFilter == InitFilter /\ [][NextFilter]_vars

\* Sorting applied to every bounded catalogue, year range and tie order.
MaxSortRows == 4

InitSort == InitSession(Catalogues(SortBooks, MaxSortRows), BOOLEAN)

NextSort ==
    \/ Load
    \/ \E srt \in SortOptions : SetSort(srt)
    \/ \E yr \in SliderRanges(data) : SetYears(yr[1], yr[2])

SpecSort == InitSort /\ [][NextSort]_vars

-----------------------------------------------------------------------------
(* Properties *)

Known(s) == SelectSeq(s, LAMBDA k : ~Row(data, k)["Year_Numeric"].isna)
Absent(s) == SelectSeq(s, LAMBDA k : Row(data, k)["Year_Numeric"].isna)
YearsOf(s) == [i \in 1..Len(s) |-> Row(data, s[i])["Year_Numeric"].num]

RECURSIVE Concat(_)
Concat(ss) == IF ss = <<>> THEN <<>> ELSE Head(ss) \o Concat(Tail(ss))

\* ceil(n / 20), stated without the code's arithmetic
CeilPages(n) == CHOOSE t \in 0..n : t * ITEMS_PER_PAGE >= n /\ (t - 1) * ITEMS_PER_PAGE < n

\* Elements [(p-1)*20, p*20) of s, 0-based, end exclusive
ElementsOfPage(s, p) ==
    LET first == (p - 1) * ITEMS_PER_PAGE
        n == Cardinality({j \in 1..Len(s) : first < j /\ j <= p * ITEMS_PER_PAGE})
    IN [i \in 1..n |-> s[first + i]]

\* C1: whenever a non-empty filtered result is paginated, the session's page
\* index satisfies 1 <= page <= total_pages with total_pages = ceil(count / 20),
\* also after a filter change shrank the count.
C1_PageWithinTotalPages ==
    (pc = "ready" /\ ~run_error /\ Len(filtered_df) > ITEMS_PER_PAGE)
        => (1 <= page /\ page <= CeilPages(Len(filtered_df)))

\* C2: with a non-empty filtered result, the rendered cards are exactly elements
\* [(page-1)*20, page*20) of the sorted filtered sequence for the session's page
\* index (a session that never paginated is on page 1).
C2_ViewIsPageSlice ==
    (pc = "ready" /\ ~run_error /\ filtered_df # <<>>)
        => view_df = ElementsOfPage(filtered_df, PageState(page))

\* The records that passed the text and facet stages of the last run.
PassedOthers ==
    SeqRange(FacetFilter(data,
                FacetFilter(data,
                    FacetFilter(data, SearchFilter(data, AllLabels(data), search_query),
                                "Category", sel_cats),
                    "Language", sel_langs),
                "Publisher", sel_pubs))

DatasetYears == {Row(data, k)["Year_Numeric"].num : k \in {j \in SeqRange(AllLabels(data)) :
                                                            ~Row(data, j)["Year_Numeric"].isna}}
FullRangeSelected ==
    /\ \A y \in DatasetYears : sel_years.lo <= y /\ y <= sel_years.hi
    /\ sel_years.lo \in DatasetYears
    /\ sel_years.hi \in DatasetYears

\* C3: with a known year in the dataset, a selected range equal to the dataset's
\* [min, max] keeps every record that passed the other predicates, those with an
\* absent Year_Numeric included; any proper sub-range keeps exactly the records
\* with lo <= Year_Numeric <= hi and none with an absent Year_Numeric.
C3_YearRangePolicy ==
    (pc = "ready" /\ ~run_error /\ DatasetYears # {})
        => /\ ~sel_years.none
           /\ FullRangeSelected => SeqRange(filtered_df) = PassedOthers
           /\ ~FullRangeSelected =>
                 SeqRange(filtered_df) =
                     {k \in PassedOthers : /\ ~Row(data, k)["Year_Numeric"].isna
                                           /\ sel_years.lo <= Row(data, k)["Year_Numeric"].num
                                           /\ Row(data, k)["Year_Numeric"].num <= sel_years.hi}

\* C3 witness: a proper sub-range is selected while a record with an absent year
\* matched a non-empty text query, and some record is kept.
C3_Witness ==
    /\ pc = "ready" /\ ~run_error /\ DatasetYears # {}
    /\ ~FullRangeSelected
    /\ search_query # ""
    /\ \E k \in PassedOthers : Row(data, k)["Year_Numeric"].isna
    /\ filtered_df # <<>>

\* The text predicate of the specification: the case-folded query is a literal
\* substring of Search_Blob; an empty query is always true.
LiteralMatch(k) ==
    search_query = "" \/ Contains(Row(data, k)["Search_Blob"].text, Lower(search_query))

InFacet(k, col, sel) == sel = {} \/ (~Row(data, k)[col].isna /\ Row(data, k)[col].text \in sel)

InYearRange(k) ==
    \/ sel_years.none
    \/ FullRangeSelected
    \/ /\ ~Row(data, k)["Year_Numeric"].isna
       /\ sel_years.lo <= Row(data, k)["Year_Numeric"].num
       /\ Row(data, k)["Year_Numeric"].num <= sel_years.hi

\* C4: for every dataset and filter state the pipeline returns exactly the
\* records that satisfy the text query, category, language, publisher and year
\* predicates together, in dataset order; an empty facet selection restricts
\* nothing.  (No run of SpecFilter sorts: sort_opt stays "Relevance".)
C4_AllPredicatesInOrder ==
    pc = "ready"
        => /\ ~run_error
           /\ filtered_df =
                 SelectSeq(AllLabels(data),
                           LAMBDA k : /\ LiteralMatch(k)
                                      /\ InFacet(k, "Category", sel_cats)
                                      /\ InFacet(k, "Language", sel_langs)
                                      /\ InFacet(k, "Publisher", sel_pubs)
                                      /\ InYearRange(k))

RequiredColumns == {"Book Title", "Author(s)", "Category", "Language"}
Malformed(f) ==
    \/ ~f.readable
    \/ ~(RequiredColumns \subseteq f.cols)
    \/ ("Year" \notin f.cols /\ "Publication Date" \notin f.cols)

\* C5: a file that cannot be read, or that parses but lacks a required column,
\* makes the loader return an empty result and the session halt with a message;
\* the load never crashes and never yields a partial catalogue.
C5_MalformedFileHalts ==
    (pc # "start" /\ Malformed(file)) => (pc = "halted" /\ data = <<>>)

IsSentinel(c) == c.isna \/ Lower(Strip(c.text)) \in {"unknown", "nan", "null", "none", ""}

\* C8: after loading a file with a Publication Date column, no record has an
\* absent Year while its Publication Date holds a non-sentinel value, whether
\* Year was missing in the file or held a sentinel text.
C8_YearTakenFromPublicationDate ==
    (pc = "ready" /\ "Publication Date" \in file.cols)
        => \A i \in 1..Len(data) :
              ~(data[i]["Year"].isna /\ ~IsSentinel(file.rows[i]["Publication Date"]))

\* C10: for every query the filter stage completes without an error and the
\* text predicate keeps exactly the records whose Search_Blob contains the
\* case-folded query as a literal substring (every record for an empty query).
\* Stated for the runs in which no other predicate is active.
C10_LiteralSubstringSearch ==
    (pc = "ready" /\ sel_cats = {} /\ sel_langs = {} /\ sel_pubs = {}
        /\ (sel_years.none \/ FullRangeSelected))
        => /\ ~run_error
           /\ filtered_df = SelectSeq(AllLabels(data), LiteralMatch)

AbsentLast(s) == s = Known(s) \o Absent(s)
YearSorted == sort_opt \in {"Year (Newest)", "Year (Oldest)"} => AbsentLast(filtered_df)

\* A step that switches Year (Newest) to Year (Oldest) over the same filtered set.
NewestToOldest ==
    /\ pc = "ready" /\ sort_opt = "Year (Newest)" /\ sort_opt' = "Year (Oldest)"
    /\ filtered_df # <<>>

Distinct(s) == \A i, j \in 1..Len(s) : i # j => s[i] # s[j]

\* C6 as stated: under both year orders the records with an absent Year_Numeric
\* follow all the others, and the known-year part of the Year (Newest) order,
\* reversed, is the known-year part of the Year (Oldest) order, ties included.
C6_ReversedNewestIsOldest ==
    [][/\ YearSorted
       /\ YearSorted'
       /\ NewestToOldest => Reverse(Known(filtered_df)) = Known(filtered_df')]_vars

\* C6 amended: under both year orders the records with an absent Year_Numeric
\* follow all the others in dataset order; the known-year part of the
\* Year (Newest) order, reversed, carries the same years in the same places as
\* the known-year part of the Year (Oldest) order and holds the same records,
\* and is the same sequence when no two of its records share a year.
C6_ReversedNewestMatchesYears ==
    [][/\ YearSorted
       /\ YearSorted'
       /\ NewestToOldest =>
             /\ YearsOf(Reverse(Known(filtered_df))) = YearsOf(Known(filtered_df'))
             /\ SeqRange(Known(filtered_df)) = SeqRange(Known(filtered_df'))
             /\ Absent(filtered_df) = Absent(filtered_df')
             /\ Distinct(YearsOf(Known(filtered_df)))
                    => Reverse(Known(filtered_df)) = Known(filtered_df')]_vars

\* C6 witness: a year order over records of which two share a year, one has
\* another year and one has none.
C6_Witness ==
    /\ pc = "ready" /\ sort_opt = "Year (Oldest)"
    /\ Absent(filtered_df) # <<>>
    /\ ~Distinct(YearsOf(Known(filtered_df)))
    /\ Cardinality(SeqRange(YearsOf(Known(filtered_df)))) > 1

\* C7: starting at page 1 and pressing Next visits pages 1, 2, ..., total_pages
\* in order; the views shown, concatenated, are a prefix of the sorted sequence
\* and the whole of it on the last page, each page but the last holding exactly
\* 20 records.
C7_PagesConcatenateToSorted ==
    (pc = "ready" /\ shown # <<>>)
        => /\ Len(shown) = PageState(page)
           /\ Len(shown) <= CeilPages(Len(filtered_df))
           /\ view_df = shown[Len(shown)]
           /\ \A i \in 1..(Len(shown) - 1) : Len(shown[i]) = ITEMS_PER_PAGE
           /\ Len(shown[Len(shown)]) \in 1..ITEMS_PER_PAGE
           /\ Concat(shown) = SubSeq(filtered_df, 1, Len(Concat(shown)))
           /\ Len(shown) = CeilPages(Len(filtered_df)) => Concat(shown) = filtered_df

\* C7 witness: Next has been pressed from page 1 to a third and last page,
\* which is shorter than a full page.
C7_Witness ==
    /\ pc = "ready" /\ Len(shown) = 3
    /\ CeilPages(Len(filtered_df)) = 3
    /\ Len(view_df) < ITEMS_PER_PAGE

\* C9: the record chosen by the last Details click stays the session's selection
\* and the record of the details dialog through every later interaction, and a
\* session without a Details click has no selection and no dialog.
C9_SelectionHeld ==
    pc = "ready"
        => /\ sel_book_idx = chosen
           /\ chosen = NoBook => (~show_d /\ dialog = NoDialog)
           /\ chosen # NoBook =>
                 /\ show_d
                 /\ sel_book_data = Row(data, chosen)
                 /\ ~run_error => dialog = Row(data, chosen)

\* C9 witness: the chosen record is no longer among the rendered cards of a
\* non-empty result that has since been re-sorted and turned to another page.
C9_Witness ==
    /\ pc = "ready" /\ ~run_error
    /\ chosen # NoBook
    /\ view_df # <<>>
    /\ chosen \notin SeqRange(view_df)
    /\ sort_opt # "Relevance"
    /\ page > 1
    /\ sel_cats # {}

=============================================================================
